---- MODULE Spec2Model ----
(***************************************************************************)
(* Model of bin/compare-factory-config.py: the comparison of the factory   *)
(* configuration (XML and YAML documents of a cloned repository) with the  *)
(* topology registry.                                                      *)
(*                                                                         *)
(*   Spec       the whole of run()                                         *)
(*   SpecLoad   get_gfactory_data on one document and an earlier index     *)
(*   SpecRecon  the two find_* functions on any index and any registry     *)
(***************************************************************************)
EXTENDS Integers, Sequences, FiniteSets, TLC

VARIABLES
    pc,                         \* position in run()
    error,                      \* the exception that ended run(), or "none"
    topology_DB,                \* run: topology_DB
    temp_dir,                   \* the directory of tempfile.mkdtemp(): "none", "exists", "removed"
    gfactory,                   \* run: gfactory, the documents found by glob, with their content
    idx,                        \* position of the loop "for xml in gfactory"
    gfactory_DB,                \* run: gfactory_DB
    match_nonresource_entries,  \* run: match_nonresource_entries
    nonmatch_all_entries,       \* run: nonmatch_all_entries
    stdout                      \* what print() has written, one element per call

vars == <<pc, error, topology_DB, temp_dir, gfactory, idx, gfactory_DB,
          match_nonresource_entries, nonmatch_all_entries, stdout>>

----------------------------------------------------------------------------
(* Bounds and input domains *)

MaxDocs == 2        \* documents in the cloned repository
MaxEntries == 2     \* entries of one XML document, items of one YAML entry mapping
MaxGroups == 2      \* entry mappings of one YAML document

Names == {"R1", "S1"}                   \* resource names and registry identifiers
EntryNames == {"EntryA", "EntryB"}      \* factory entry names
EntryOrder == <<"EntryA", "EntryB">>    \* EntryNames in the order of Python's str comparison

GRN == "GLIDEIN_ResourceName"

\* All sequences over S of length lo..hi
SeqsOf(S, lo, hi) == UNION {[1..n -> S] : n \in lo..hi}

RECURSIVE Flatten(_)
Flatten(ss) == IF ss = <<>> THEN <<>> ELSE Head(ss) \o Flatten(Tail(ss))

\* The enumerations of a finite set: the orders in which Python may iterate it
Orders(S) == {o \in [1..Cardinality(S) -> S] : \A x \in S : \E j \in DOMAIN o : o[j] = x}

Range(s) == {s[j] : j \in DOMAIN s}

----------------------------------------------------------------------------
(* Factory documents *)

\* The children attrs/attr of one entry: <attr name=... value=...>
AttrLists ==
    { <<>>,
      <<[name |-> GRN, value |-> "R1"]>>,
      <<[name |-> "GLIDEIN_Site", value |-> "S1"], [name |-> GRN, value |-> "S1"]>>,
      <<[name |-> GRN, value |-> "S1"], [name |-> GRN, value |-> "R1"]>> }

\* <entry name=... enabled=...>; enabled "absent" is a missing attribute (entry.get gives None)
XmlEntries == [name : EntryNames, enabled : {"True", "False", "absent"}, attrs : AttrLists]

\* Enabled entries with the one attr GLIDEIN_ResourceName
PlainXmlEntries ==
    { [name |-> "EntryA", enabled |-> "True", attrs |-> <<[name |-> GRN, value |-> "R1"]>>],
      [name |-> "EntryB", enabled |-> "True", attrs |-> <<[name |-> GRN, value |-> "S1"]>>] }

\* ET.parse raises on a document that is not well-formed XML
XmlParseError == [kind |-> "xml", load |-> "ParseError", entries |-> <<>>]

XmlDocsOver(E) ==
    {[kind |-> "xml", load |-> "ok", entries |-> es] : es \in SeqsOf(E, 0, MaxEntries)}

\* config: the mapping of one entry name. Well-formed: config['attrs']['GLIDEIN_ResourceName']
GoodConfigs == {[attrs |-> [GLIDEIN_ResourceName |-> r]] : r \in Names}
BadConfigs == {[limits |-> "none"], [attrs |-> [GLIDEIN_Site |-> "S1"]]}
Configs == GoodConfigs \cup BadConfigs

\* entry.items() of a mapping: pairs <<entry_name, config>>, the names distinct (dict keys)
ItemsOver(C) ==
    {its \in SeqsOf(EntryNames \X C, 0, MaxEntries) :
        \A j, k \in DOMAIN its : j # k => its[j][1] # its[k][1]}

\* The values of resource.values(): a mapping, or a scalar (entry.items() raises)
YamlEntriesOver(C) == {[items |-> its] : its \in ItemsOver(C)} \cup {[scalar |-> "x"]}

\* data.values(): the entry values es split over consecutive resources, a resource ending
\* at each position of cuts and at the last entry value
RECURSIVE YamlData(_, _)
YamlData(es, cuts) ==
    IF es = <<>> THEN <<>>
    ELSE LET c == CHOOSE x \in cuts \cup {Len(es)} : \A y \in cuts \cup {Len(es)} : x <= y
         IN  <<SubSeq(es, 1, c)>>
                 \o YamlData(SubSeq(es, c + 1, Len(es)), {x - c : x \in cuts \ {c}})

\* yaml.safe_load raises YAMLError; or the document loads to something that is no mapping
YamlError == [kind |-> "yml", load |-> "YAMLError", data |-> <<>>]
YamlNotMapping == [kind |-> "yml", load |-> "not_mapping", data |-> <<>>]

YamlDoc(data) == [kind |-> "yml", load |-> "ok", data |-> data]

----------------------------------------------------------------------------
(* get_gfactory_data *)

EmptyDB == [k \in {} |-> <<>>]

\* Variant: the list of an existing key is replaced
InsertReplacing(db, key, entry_name) ==
    [k \in DOMAIN db \cup {key} |-> IF k = key THEN <<entry_name>> ELSE db[k]]

\* try: gfactory_DB[k].append(e)  except KeyError: gfactory_DB[k] = []; gfactory_DB[k].append(e)
Insert(db, key, entry_name) ==
    IF key \in DOMAIN db
    THEN [db EXCEPT ![key] = Append(@, entry_name)]
    ELSE [k \in DOMAIN db \cup {key} |-> IF k = key THEN <<entry_name>> ELSE db[k]]

\* for attr in entry.findall('attrs/attr'): if attr.get('name') == GRN: ...; break
RECURSIVE LoadAttrs(_, _, _)
LoadAttrs(db, entry, attrs) ==
    IF attrs = <<>> THEN db
    ELSE IF Head(attrs).name = GRN
         THEN Insert(db, Head(attrs).value, entry.name)
         ELSE LoadAttrs(db, entry, Tail(attrs))

\* Variant: any value of enabled counts
IsEnabledTruthy(entry) == entry.enabled # "absent"

\* entry.get('enabled') == 'True'
IsEnabled(entry) == entry.enabled = "True"

\* for entry in root.findall('entries/entry')
RECURSIVE LoadXmlEntries(_, _)
LoadXmlEntries(db, entries) ==
    IF entries = <<>> THEN db
    ELSE LET entry == Head(entries)
         IN  LoadXmlEntries(IF IsEnabled(entry) THEN LoadAttrs(db, entry, entry.attrs) ELSE db,
                            Tail(entries))

\* config['attrs']['GLIDEIN_ResourceName'] raises KeyError
ConfigRaises(config) ==
    \/ "attrs" \notin DOMAIN config
    \/ GRN \notin DOMAIN config.attrs

\* try: for entry_name, config in entry.items(): ...  except: continue
\* An exception leaves the for loop: the items after it are not visited.
RECURSIVE LoadItems(_, _)
LoadItems(db, items) ==
    IF items = <<>> THEN db
    ELSE LET entry_name == Head(items)[1]
             config == Head(items)[2]
         IN  IF ConfigRaises(config) THEN db
             ELSE LoadItems(Insert(db, config.attrs[GRN], entry_name), Tail(items))

\* for entry in resource.values()
RECURSIVE LoadYamlEntries(_, _)
LoadYamlEntries(db, entries) ==
    IF entries = <<>> THEN db
    ELSE LET entry == Head(entries)
         IN  LoadYamlEntries(IF "items" \in DOMAIN entry THEN LoadItems(db, entry.items) ELSE db,
                             Tail(entries))

\* for resource in data.values()
LoadYamlData(db, data) == LoadYamlEntries(db, Flatten(data))

\* The index after get_gfactory_data(db, doc) returns
get_gfactory_data(db, doc) ==
    IF doc.kind = "xml" THEN LoadXmlEntries(db, doc.entries) ELSE LoadYamlData(db, doc.data)

\* Variant: a caught YAMLError lets the load go on
LoadErrorSwallowed(doc) ==
    CASE doc.load = "ok" -> "none"
      [] doc.load = "ParseError" -> "ParseError"
      [] doc.load = "YAMLError" -> "none"
      [] doc.load = "not_mapping" -> "AttributeError"

\* The exception get_gfactory_data(db, doc) raises, or "none". After a YAMLError, which is
\* caught and printed, data is unbound and data.values() raises UnboundLocalError.
LoadError(doc) ==
    CASE doc.load = "ok" -> "none"
      [] doc.load = "ParseError" -> "ParseError"
      [] doc.load = "YAMLError" -> "UnboundLocalError"
      [] doc.load = "not_mapping" -> "AttributeError"

----------------------------------------------------------------------------
(* get_topology_data *)

EmptyTopology == [resources |-> {}, sites |-> {}, facilities |-> {}, resourceGroups |-> {}]

\* <ResourceGroup> with its GroupName, the Name of its Facility and Site, and its Resources
ResourceGroups == [GroupName : Names, Facility : Names, Site : Names, Resources : SUBSET Names]

\* The documents the registry service answers with
TopologyPages == {<<>>} \cup {<<g>> : g \in ResourceGroups}

\* Every registry index
Registries == [resources : SUBSET Names, sites : SUBSET Names,
               facilities : SUBSET Names, resourceGroups : SUBSET Names]

\* for child in topology_root.findall('ResourceGroup')
RECURSIVE get_topology_data(_, _)
get_topology_data(topo, page) ==
    IF page = <<>> THEN topo
    ELSE LET child == Head(page)
         IN  get_topology_data(
                 [resourceGroups |-> topo.resourceGroups \cup {child.GroupName},
                  facilities |-> topo.facilities \cup {child.Facility},
                  sites |-> topo.sites \cup {child.Site},
                  resources |-> topo.resources \cup child.Resources],
                 Tail(page))

----------------------------------------------------------------------------
(* find_non_resource_matches, find_non_topology_matches *)

nonmatch_resource_names(db, topo) == DOMAIN db \ topo.resources

\* Variant: the resources are not subtracted
match_non_resource_names_no_difference(db, topo) ==
    DOMAIN db \cap (topo.resourceGroups \cup topo.sites \cup topo.facilities)

match_non_resource_names(db, topo) ==
    nonmatch_resource_names(db, topo)
        \cap (topo.resourceGroups \cup topo.sites \cup topo.facilities)

\* Variant: the sites are left out of the union
nonmatch_all_names_no_sites(db, topo) ==
    DOMAIN db \ (topo.resources \cup topo.facilities \cup topo.resourceGroups)

nonmatch_all_names(db, topo) ==
    DOMAIN db \ (topo.resources \cup topo.sites \cup topo.facilities \cup topo.resourceGroups)

\* Variant: one record per name
find_non_resource_matches_first_entry(db, order) ==
    [j \in 1..Len(order) |-> <<db[order[j]][1], order[j]>>]

\* for name in match_non_resource_names: for entry in gfactory_DB[name]: ret.append((entry, name))
\* order: the order in which the set is iterated

find_non_resource_matches(db, order) ==
    Flatten([j \in 1..Len(order) |->
                [k \in 1..Len(db[order[j]]) |-> <<db[order[j]][k], order[j]>>]])

\* Variant: one entry per name
find_non_topology_matches_first_entry(db, order) ==
    [j \in 1..Len(order) |-> db[order[j]][1]]

\* for name in nonmatch_all_names: ret.extend(gfactory_DB[name])
find_non_topology_matches(db, order) ==
    Flatten([j \in 1..Len(order) |-> db[order[j]]])

----------------------------------------------------------------------------
(* The report *)

Header1 == <<"\nFactory entries that match a Topology entity other than a resource: \n">>
Header2 == <<"\nFactory entries that do not match any entity in Topology: \n">>
BlankLine == <<>>

\* f'- {x[0]}: {x[1]}'
MismatchLine(x) == <<"- ", x[1], ": ", x[2]>>
\* f'- {x}'
OrphanLine(x) == <<"- ", x>>

\* sorted(set(xs))
SortedSet(xs) == SelectSeq(EntryOrder, LAMBDA e : e \in Range(xs))

\* Variant: one line per element, as returned
OrphanLinesUnsorted(xs) == [j \in 1..Len(xs) |-> OrphanLine(xs[j])]

\* for x in sorted(set(nonmatch_all_entries)): print(f'- {x}')
OrphanLines(xs) == LET s == SortedSet(xs) IN [j \in 1..Len(s) |-> OrphanLine(s[j])]

\* for x in match_nonresource_entries: print(f'- {x[0]}: {x[1]}')
MismatchLines(xs) == [j \in 1..Len(xs) |-> MismatchLine(xs[j])]

----------------------------------------------------------------------------
(* run *)

\* glob('*.xml') + glob('OSG_autoconf/*.yml'): the XML documents come first
RepoXmlDocs == XmlDocsOver(PlainXmlEntries) \cup {XmlParseError}
RepoYamlDocs ==
    {YamlDoc(<< <<[items |-> its]>> >>) : its \in ItemsOver(GoodConfigs)}
        \cup {YamlError, YamlNotMapping}

Repositories(n) ==
    {fs \in SeqsOf(RepoXmlDocs \cup RepoYamlDocs, 0, n) :
        \A j, k \in DOMAIN fs : (j < k /\ fs[j].kind = "yml") => fs[k].kind = "yml"}

Init ==
    /\ pc = "get_topology_data"
    /\ error = "none"
    /\ topology_DB = EmptyTopology
    /\ temp_dir = "none"
    /\ gfactory = <<>>
    /\ idx = 1
    /\ gfactory_DB = EmptyDB
    /\ match_nonresource_entries = <<>>
    /\ nonmatch_all_entries = <<>>
    /\ stdout = <<>>

Raise(e) == pc' = "aborted" /\ error' = e

\* get_topology_data(topology_DB)
GetTopologyData ==
    /\ pc = "get_topology_data"
    /\ \E page \in TopologyPages :
          /\ topology_DB' = get_topology_data(topology_DB, page)
          /\ pc' = "mkdtemp"
    /\ UNCHANGED <<error, temp_dir, gfactory, idx, gfactory_DB,
                   match_nonresource_entries, nonmatch_all_entries, stdout>>

\* urllib.request.urlopen or ET.fromstring raises
GetTopologyDataFails ==
    /\ pc = "get_topology_data"
    /\ \E e \in {"URLError", "ParseError"} : Raise(e)
    /\ UNCHANGED <<topology_DB, temp_dir, gfactory, idx, gfactory_DB,
                   match_nonresource_entries, nonmatch_all_entries, stdout>>

\* temp_dir = tempfile.mkdtemp()
Mkdtemp ==
    /\ pc = "mkdtemp"
    /\ temp_dir' = "exists"
    /\ pc' = "clone_from"
    /\ UNCHANGED <<error, topology_DB, gfactory, idx, gfactory_DB,
                   match_nonresource_entries, nonmatch_all_entries, stdout>>

\* git.Repo.clone_from(...); gfactory.extend(glob(...) + glob(...)); gfactory_DB = {}
CloneFrom ==
    /\ pc = "clone_from"
    /\ \E fs \in Repositories(MaxDocs) :
          /\ gfactory' = fs
          /\ pc' = IF fs = <<>> THEN "find_non_resource_matches" ELSE "get_gfactory_data"
    /\ idx' = 1
    /\ gfactory_DB' = EmptyDB
    /\ UNCHANGED <<error, topology_DB, temp_dir,
                   match_nonresource_entries, nonmatch_all_entries, stdout>>

\* git.Repo.clone_from raises
CloneFromFails ==
    /\ pc = "clone_from"
    /\ Raise("GitCommandError")
    /\ UNCHANGED <<topology_DB, temp_dir, gfactory, idx, gfactory_DB,
                   match_nonresource_entries, nonmatch_all_entries, stdout>>

\* for xml in gfactory: get_gfactory_data(gfactory_DB, xml)    -- one document, loaded
GetGfactoryData ==
    /\ pc = "get_gfactory_data"
    /\ LoadError(gfactory[idx]) = "none"
    /\ gfactory_DB' = get_gfactory_data(gfactory_DB, gfactory[idx])
    /\ idx' = idx + 1
    /\ pc' = IF idx = Len(gfactory) THEN "find_non_resource_matches" ELSE "get_gfactory_data"
    /\ UNCHANGED <<error, topology_DB, temp_dir, gfactory,
                   match_nonresource_entries, nonmatch_all_entries, stdout>>

\* get_gfactory_data raises: ET.parse, or data.values() on what safe_load left
GetGfactoryDataFails ==
    /\ pc = "get_gfactory_data"
    /\ LoadError(gfactory[idx]) # "none"
    /\ Raise(LoadError(gfactory[idx]))
    /\ stdout' = IF gfactory[idx].load = "YAMLError"
                 THEN Append(stdout, <<"YAMLError">>)      \* print(error)
                 ELSE stdout
    /\ UNCHANGED <<topology_DB, temp_dir, gfactory, idx, gfactory_DB,
                   match_nonresource_entries, nonmatch_all_entries>>

\* match_nonresource_entries = find_non_resource_matches(gfactory_DB, topology_DB)
FindNonResourceMatches ==
    /\ pc = "find_non_resource_matches"
    /\ \E order \in Orders(match_non_resource_names(gfactory_DB, topology_DB)) :
          match_nonresource_entries' = find_non_resource_matches(gfactory_DB, order)
    /\ pc' = "find_non_topology_matches"
    /\ UNCHANGED <<error, topology_DB, temp_dir, gfactory, idx, gfactory_DB,
                   nonmatch_all_entries, stdout>>

\* nonmatch_all_entries = find_non_topology_matches(gfactory_DB, topology_DB)
FindNonTopologyMatches ==
    /\ pc = "find_non_topology_matches"
    /\ \E order \in Orders(nonmatch_all_names(gfactory_DB, topology_DB)) :
          nonmatch_all_entries' = find_non_topology_matches(gfactory_DB, order)
    /\ pc' = "report"
    /\ UNCHANGED <<error, topology_DB, temp_dir, gfactory, idx, gfactory_DB,
                   match_nonresource_entries, stdout>>

\* the prints of run, lines 194-200
Report ==
    /\ pc = "report"
    /\ stdout' = stdout \o <<Header1>> \o MismatchLines(match_nonresource_entries)
                        \o <<Header2>> \o OrphanLines(nonmatch_all_entries)
                        \o <<BlankLine>>
    /\ pc' = "rmtree"
    /\ UNCHANGED <<error, topology_DB, temp_dir, gfactory, idx, gfactory_DB,
                   match_nonresource_entries, nonmatch_all_entries>>

\* shutil.rmtree(temp_dir, onerror=remove_readonly)
Rmtree ==
    /\ pc = "rmtree"
    /\ temp_dir' = "removed"
    /\ pc' = "done"
    /\ UNCHANGED <<error, topology_DB, gfactory, idx, gfactory_DB,
                   match_nonresource_entries, nonmatch_all_entries, stdout>>

Next ==
    \/ GetTopologyData
    \/ GetTopologyDataFails
    \/ Mkdtemp
    \/ CloneFrom
    \/ CloneFromFails
    \/ GetGfactoryData
    \/ GetGfactoryDataFails
    \/ FindNonResourceMatches
    \/ FindNonTopologyMatches
    \/ Report
    \/ Rmtree

Spec == Init /\ [][Next]_vars

----------------------------------------------------------------------------
(* SpecLoad: get_gfactory_data on one document, the index holding earlier entries *)

\* Every index whose lists hold 1..n entries
FactoryIndexes(n) == UNION {[D -> SeqsOf(EntryNames, 1, n)] : D \in SUBSET Names}

\* The indexes a document is loaded into: every set of keys
PriorIndexes == {[k \in D |-> <<"EntryA">>] : D \in SUBSET Names}

InitLoad ==
    /\ pc = "get_gfactory_data"
    /\ error = "none"
    /\ topology_DB = EmptyTopology
    /\ temp_dir = "exists"
    /\ \/ \E doc \in XmlDocsOver(XmlEntries) \cup {XmlParseError, YamlError, YamlNotMapping} :
              gfactory = <<doc>>
       \/ \E n \in 1..MaxGroups :
              \E es \in [1..n -> YamlEntriesOver(Configs)], cuts \in SUBSET (1..(n - 1)) :
                  gfactory = <<YamlDoc(YamlData(es, cuts))>>
    /\ idx = 1
    /\ gfactory_DB \in PriorIndexes
    /\ match_nonresource_entries = <<>>
    /\ nonmatch_all_entries = <<>>
    /\ stdout = <<>>

NextLoad ==
    \/ GetGfactoryData
    \/ GetGfactoryDataFails

SpecLoad == InitLoad /\ [][NextLoad]_vars

----------------------------------------------------------------------------
(* SpecRecon: the two find_* functions on any index and any registry *)

InitRecon ==
    /\ pc = "find_non_resource_matches"
    /\ error = "none"
    /\ topology_DB \in Registries
    /\ temp_dir = "exists"
    /\ gfactory = <<>>
    /\ idx = 1
    /\ gfactory_DB \in FactoryIndexes(MaxEntries)
    /\ match_nonresource_entries = <<>>
    /\ nonmatch_all_entries = <<>>
    /\ stdout = <<>>

NextRecon ==
    \/ FindNonResourceMatches
    \/ FindNonTopologyMatches

SpecRecon == InitRecon /\ [][NextRecon]_vars

----------------------------------------------------------------------------
(* Properties *)

\* find_non_resource_matches has returned
Matched == pc \in {"find_non_topology_matches", "report", "rmtree", "done"}
\* find_non_topology_matches has returned too
Reconciled == pc \in {"report", "rmtree", "done"}

Categorized == topology_DB.resourceGroups \cup topology_DB.sites \cup topology_DB.facilities
Known == topology_DB.resources \cup Categorized

\* The names of the mismatch records
RecordNames == {match_nonresource_entries[j][2] : j \in DOMAIN match_nonresource_entries}

\* C1: find_non_resource_matches returns exactly the records (entry, name) with name in
\* keys(factory) /\ (resourceGroups \/ sites \/ facilities) \ resources: the records of each
\* such name are, in order, the entries of factory[name], and no record has another name.
C1_NonResourceMatches ==
    Matched =>
        LET M == (DOMAIN gfactory_DB \cap Categorized) \ topology_DB.resources
        IN  /\ RecordNames \subseteq M
            /\ \A n \in M :
                  SelectSeq(match_nonresource_entries, LAMBDA r : r[2] = n)
                      = [k \in 1..Len(gfactory_DB[n]) |-> <<gfactory_DB[n][k], n>>]

C1_Witness ==
    /\ Matched
    /\ Cardinality(RecordNames) = 2
    /\ \E n \in RecordNames : Len(gfactory_DB[n]) = 2 /\ gfactory_DB[n][1] = gfactory_DB[n][2]

\* C2: the output of find_non_topology_matches, as a set, is the union of factory[name] over
\* the factory keys that are in none of resources, sites, facilities, resourceGroups.
C2_NonTopologyMatches ==
    Reconciled =>
        Range(nonmatch_all_entries)
            = UNION {Range(gfactory_DB[n]) : n \in DOMAIN gfactory_DB \ Known}

C2_Witness ==
    /\ Reconciled
    /\ Cardinality(Range(nonmatch_all_entries)) = 2
    /\ DOMAIN gfactory_DB \cap Known # {}
    /\ DOMAIN gfactory_DB \ Known # {}

\* C3: no factory key contributes to both result lists: the names of the mismatch records
\* and the keys whose lists find_non_topology_matches collects are disjoint.
C3_Disjoint ==
    Reconciled => RecordNames \cap nonmatch_all_names(gfactory_DB, topology_DB) = {}

C3_Witness ==
    /\ Reconciled
    /\ RecordNames # {}
    /\ nonmatch_all_entries # <<>>

\* C4: a factory key in registry.resources is matched, also when it is in sites, facilities
\* or resourceGroups: no mismatch record has its name and its list is not collected.
C4_ResourceTakesPriority ==
    Reconciled =>
        \A n \in DOMAIN gfactory_DB \cap topology_DB.resources :
            /\ n \notin RecordNames
            /\ n \notin nonmatch_all_names(gfactory_DB, topology_DB)
            /\ (DOMAIN gfactory_DB = {n} =>
                    match_nonresource_entries = <<>> /\ nonmatch_all_entries = <<>>)

C4_Witness ==
    /\ Reconciled
    /\ \E n \in DOMAIN gfactory_DB : n \in topology_DB.resources \cap topology_DB.sites
    /\ RecordNames # {}

\* run has ended: it returned, or an exception left it
Ended == pc \in {"done", "aborted"}

\* C5: when the temporary directory has been created, it has been removed by the time run
\* ends, on every exit path.
C5_TempDirRemoved == (Ended /\ temp_dir # "none") => temp_dir = "removed"

\* The entries at and after position j of a list
From(s, j) == SubSeq(s, j, Len(s))

\* The list of key k in an index, empty when k is no key
ListOf(db, k) == IF k \in DOMAIN db THEN db[k] ELSE <<>>

\* How often x occurs in a list
Count(s, x) == Cardinality({j \in DOMAIN s : s[j] = x})

\* The document the loop of run is at
Doc == gfactory[idx]

\* The step of get_gfactory_data on an XML document / on a YAML document that returns
XmlLoadStep == pc = "get_gfactory_data" /\ idx' = idx + 1 /\ Doc.kind = "xml"
YamlLoadStep == pc = "get_gfactory_data" /\ idx' = idx + 1 /\ Doc.kind = "yml"

\* What the step appended to the list of key k
Gained(k) == From(ListOf(gfactory_DB', k), Len(ListOf(gfactory_DB, k)) + 1)

\* Every list of the index is kept as the beginning of its list after the step
ListsExtended ==
    \A k \in DOMAIN gfactory_DB :
        /\ k \in DOMAIN gfactory_DB'
        /\ SubSeq(gfactory_DB'[k], 1, Len(gfactory_DB[k])) = gfactory_DB[k]

\* The items <<entry_name, config>> of all the entry mappings of a YAML document
YamlItems(doc) ==
    LET es == Flatten(doc.data)
    IN  Flatten([j \in 1..Len(es) |-> IF "items" \in DOMAIN es[j] THEN es[j].items ELSE <<>>])

\* C6: loading a YAML document with a valid top-level structure does not raise, and records
\* every well-formed entry under its resource name, also those that follow a malformed entry
\* in the same mapping; the malformed entries alone are left out.
C6_OnlyMalformedSkipped ==
    [][(pc = "get_gfactory_data" /\ Doc.kind = "yml" /\ Doc.load = "ok") =>
          /\ pc' # "aborted"
          /\ ListsExtended
          /\ \A k \in Names, n \in EntryNames :
                Count(Gained(k), n)
                    = Count(YamlItems(Doc), <<n, [attrs |-> [GLIDEIN_ResourceName |-> k]]>>)
      ]_vars

\* The entries of an XML document that are enabled and carry a GLIDEIN_ResourceName
Qualifying(doc) ==
    {j \in DOMAIN doc.entries :
        /\ doc.entries[j].enabled = "True"
        /\ \E a \in DOMAIN doc.entries[j].attrs : doc.entries[j].attrs[a].name = GRN}

\* C9: loading an XML document adds one association (GLIDEIN_ResourceName value -> entry
\* name) for each entry with enabled = "True" that carries a GLIDEIN_ResourceName, exactly
\* one per such entry, and none for an entry whose enabled is absent or has another value.
C9_XmlEnabledEntries ==
    [][XmlLoadStep =>
          /\ ListsExtended
          /\ DOMAIN gfactory_DB' \subseteq Names
          /\ \A n \in EntryNames :
                Cardinality({<<k, j>> \in Names \X (1..MaxEntries) :
                                j <= Len(Gained(k)) /\ Gained(k)[j] = n})
                    = Cardinality({j \in Qualifying(Doc) : Doc.entries[j].name = n})
          /\ \A k \in Names : \A g \in DOMAIN Gained(k) :
                \E j \in Qualifying(Doc) :
                    /\ Doc.entries[j].name = Gained(k)[g]
                    /\ \E a \in DOMAIN Doc.entries[j].attrs :
                          Doc.entries[j].attrs[a] = [name |-> GRN, value |-> k]
      ]_vars

C9_Witness ==
    /\ pc = "find_non_resource_matches"
    /\ gfactory[1].kind = "xml"
    /\ Len(gfactory[1].entries) = 2
    /\ Qualifying(gfactory[1]) = {2}
    /\ gfactory[1].entries[1].enabled = "absent"
    /\ gfactory[1].entries[1].attrs # <<>>
    /\ Len(gfactory[1].entries[2].attrs) = 2
    /\ \E k \in DOMAIN gfactory_DB : Len(gfactory_DB[k]) = 2

\* The loop of run over the documents has ended
Loaded == pc \in {"find_non_resource_matches", "find_non_topology_matches",
                  "report", "rmtree", "done"}

\* for xml in gfactory: get_gfactory_data(gfactory_DB, xml), over the documents in another order
RECURSIVE MergeIn(_, _)
MergeIn(db, docs) ==
    IF docs = <<>> THEN db ELSE MergeIn(get_gfactory_data(db, Head(docs)), Tail(docs))

\* The same keys and, for each key, the same entry names as often
SameAssociations(a, b) ==
    /\ DOMAIN a = DOMAIN b
    /\ \A k \in DOMAIN a : \A n \in EntryNames : Count(a[k], n) = Count(b[k], n)

OrderIndependent ==
    pc = "find_non_resource_matches" =>
        \A o \in Orders(DOMAIN gfactory) :
            SameAssociations(gfactory_DB, MergeIn(EmptyDB, [j \in DOMAIN o |-> gfactory[o[j]]]))

\* C7: successive get_gfactory_data calls concatenate the entry lists of a resource name that
\* occurs in several documents and never replace a list; whatever the order in which the same
\* documents are processed, the index has the same keys and, for each key, the same multiset
\* of entry names.
C7_Merge == []OrderIndependent /\ [][pc = "get_gfactory_data" => ListsExtended]_vars

C7_Witness ==
    /\ Loaded
    /\ Len(gfactory) = 2
    /\ gfactory[1].kind = "xml" /\ gfactory[2].kind = "yml"
    /\ "R1" \in DOMAIN get_gfactory_data(EmptyDB, gfactory[1])
    /\ "R1" \in DOMAIN get_gfactory_data(EmptyDB, gfactory[2])
    /\ gfactory_DB # MergeIn(EmptyDB, <<gfactory[2], gfactory[1]>>)

\* A line of the report: a header, a mismatch line, an orphan line or the closing blank line
IsReportLine(l) == l = Header1 \/ l = Header2 \/ l = BlankLine \/ (Len(l) >= 1 /\ l[1] = "- ")

\* C8: if the registry fetch, the clone or the top-level parsing of a factory document fails,
\* run aborts with an error and prints no part of the report; the report is printed only
\* after every document has been loaded and both find_* functions have returned.
C8_NoPartialReport ==
    /\ error # "none" => (pc = "aborted" /\ \A j \in DOMAIN stdout : ~IsReportLine(stdout[j]))
    /\ \A j \in DOMAIN gfactory : gfactory[j].load # "ok" => (idx <= j /\ ~Loaded)
    /\ (\E j \in DOMAIN stdout : IsReportLine(stdout[j])) =>
            /\ pc \in {"rmtree", "done"}
            /\ idx = Len(gfactory) + 1
            /\ \A j \in DOMAIN gfactory : gfactory[j].load = "ok"

C8_Witness ==
    /\ pc = "aborted"
    /\ error = "UnboundLocalError"
    /\ idx = 2
    /\ gfactory_DB # EmptyDB
    /\ stdout = << <<"YAMLError">> >>

\* a sorts before b
Before(a, b) == \E i, j \in DOMAIN EntryOrder : i < j /\ EntryOrder[i] = a /\ EntryOrder[j] = b

\* C10: the report is the first header, one line "- <entry>: <name>" per mismatch record
\* (duplicates kept), the second header, one line "- <name>" per distinct orphan entry name
\* in ascending order, and a blank line.
C10_Report ==
    pc \in {"rmtree", "done"} =>
        LET m == Len(match_nonresource_entries)
            O == Range(nonmatch_all_entries)
            o == Cardinality(O)
        IN  /\ Len(stdout) = m + o + 3
            /\ stdout[1] = Header1
            /\ \A j \in 1..m :
                  stdout[1 + j] = <<"- ", match_nonresource_entries[j][1],
                                    ": ", match_nonresource_entries[j][2]>>
            /\ stdout[m + 2] = Header2
            /\ \A j \in 1..o :
                  /\ Len(stdout[m + 2 + j]) = 2
                  /\ stdout[m + 2 + j][1] = "- "
                  /\ stdout[m + 2 + j][2] \in O
            /\ \A j \in 1..(o - 1) : Before(stdout[m + 2 + j][2], stdout[m + 3 + j][2])
            /\ stdout[m + o + 3] = <<>>

C10_Witness ==
    /\ pc = "done"
    /\ Len(match_nonresource_entries) = 2
    /\ match_nonresource_entries[1] = match_nonresource_entries[2]
    /\ nonmatch_all_entries = <<"EntryB", "EntryA">>

====
